---- MODULE Spec2Model ----
(***************************************************************************)
(* Model of app.py ("Trabalhos & QR"): the sqlite table `trabalhos` and    *)
(* its five helpers, the header normalisation of the spreadsheet import,   *)
(* the import loop, and the admin/public gate of the Streamlit script.     *)
(*                                                                         *)
(* Text values are sequences of one-character strings, so that strip(),    *)
(* lower() and sqlite's BINARY collation can be computed on them.          *)
(* A table row is a 9-tuple in schema order; a dict (get_trabalho_by_id,   *)
(* the records built by the forms) is a record keyed by column name.       *)
(* Timestamps (created_at) are clock readings, modelled as naturals.       *)
(***************************************************************************)
EXTENDS Integers, Sequences, FiniteSets, TLC

VARIABLES
    ADMIN_PASS,   \* app.py:16, read once when the process starts
    store,        \* table trabalhos: sequence of row tuples, in rowid order
    issued,       \* identifiers uuid4() has handed out so far
    typed_pass,   \* per session: value of the "Senha de admin" widget
    tabs,         \* per session: tabs rendered by the last script run
    rec,          \* per session: the local rec of a run inside "Editar / Excluir"
    columns,      \* header list of the data frame handed to ensure_columns
    passes,       \* number of normalisation passes applied to `columns`
    deleted,      \* <<id, session>>: deletes issued through "Excluir registro"
    last          \* the last operation: arguments, table before it, return
                  \* value, exception

vars == <<ADMIN_PASS, store, issued, typed_pass, tabs, rec, columns, passes, deleted, last>>

----------------------------------------------------------------------------
(* Bounds *)

MaxRows == 2      \* rows the table may hold when the store is called directly
MaxIssued == 1    \* identifiers uuid4() hands out to the sessions
MaxBatch == 3     \* rows of an imported spreadsheet
MaxCols == 1      \* headers of a sheet whose headers are normalised
MaxPasses == 2    \* normalisation passes over a header list

IDS == {"u1", "u2", "u3"}
Sessions == {"s1", "s2"}
Passwords == {"", "x", "y"}
Secrets == {"", "x"}

None == [none |-> TRUE]

----------------------------------------------------------------------------
(* Characters and strings *)

\* Unicode code points of the characters used by the model.
CodePoint ==
    (" " :> 32) @@ ("(" :> 40) @@ (")" :> 41) @@ ("-" :> 45) @@
    ("0" :> 48) @@ ("1" :> 49) @@ ("2" :> 50) @@ ("3" :> 51) @@
    ("A" :> 65) @@ ("B" :> 66) @@ ("D" :> 68) @@ ("E" :> 69) @@
    ("I" :> 73) @@ ("L" :> 76) @@ ("N" :> 78) @@ ("O" :> 79) @@
    ("P" :> 80) @@ ("R" :> 82) @@ ("S" :> 83) @@ ("T" :> 84) @@
    ("U" :> 85) @@ ("V" :> 86) @@
    ("a" :> 97) @@ ("b" :> 98) @@ ("c" :> 99) @@ ("d" :> 100) @@
    ("e" :> 101) @@ ("i" :> 105) @@ ("l" :> 108) @@ ("m" :> 109) @@
    ("n" :> 110) @@ ("o" :> 111) @@ ("p" :> 112) @@ ("r" :> 114) @@
    ("s" :> 115) @@ ("t" :> 116) @@ ("u" :> 117) @@ ("v" :> 118) @@
    ("x" :> 120) @@
    ("º" :> 186) @@ ("Á" :> 193) @@ ("Í" :> 205) @@
    ("á" :> 225) @@ ("í" :> 237)

\* str.lower() on one character.
LowerChar ==
    ("A" :> "a") @@ ("B" :> "b") @@ ("D" :> "d") @@ ("E" :> "e") @@
    ("I" :> "i") @@ ("L" :> "l") @@ ("N" :> "n") @@ ("O" :> "o") @@
    ("P" :> "p") @@ ("R" :> "r") @@ ("S" :> "s") @@ ("T" :> "t") @@
    ("U" :> "u") @@ ("V" :> "v") @@ ("Á" :> "á") @@ ("Í" :> "í")

lower(s) == [i \in 1..Len(s) |-> IF s[i] \in DOMAIN LowerChar THEN LowerChar[s[i]] ELSE s[i]]

IsSpace(c) == c = " "

RECURSIVE lstrip(_)
lstrip(s) == IF s # <<>> /\ IsSpace(Head(s)) THEN lstrip(Tail(s)) ELSE s

RECURSIVE rstrip(_)
rstrip(s) ==
    IF s # <<>> /\ IsSpace(s[Len(s)]) THEN rstrip(SubSeq(s, 1, Len(s) - 1)) ELSE s

strip(s) == rstrip(lstrip(s))

\* memcmp order of sqlite's default BINARY collation: the first differing
\* character decides, a proper prefix sorts first.
BinaryLess(x, y) ==
    \/ \E i \in 1..Len(x) :
          /\ i <= Len(y)
          /\ \A j \in 1..(i - 1) : x[j] = y[j]
          /\ CodePoint[x[i]] < CodePoint[y[i]]
    \/ /\ Len(x) < Len(y)
       /\ \A j \in 1..Len(x) : x[j] = y[j]

Ana == <<"A", "n", "a">>
Bea == <<"B", "e", "a">>
ana == <<"a", "n", "a">>

----------------------------------------------------------------------------
(* Table trabalhos *)

\* CREATE TABLE column order.
TableCols ==
    <<"id", "aluno", "orientador", "areas", "titulo",
      "avaliador1", "avaliador2", "painel", "created_at">>

ColIndex(c) == CHOOSE i \in 1..Len(TableCols) : TableCols[i] = c

Ids(tbl) == {tbl[i][1] : i \in 1..Len(tbl)}

\* dict(zip(cols, row)) with cols taken from the cursor description.
RowDict(t) == [c \in {TableCols[i] : i \in 1..Len(TableCols)} |-> t[ColIndex(c)]]

\* The column list and the parameter tuple of the INSERT statement.
InsertCols ==
    <<"id", "aluno", "orientador", "areas", "titulo",
      "avaliador1", "avaliador2", "painel", "created_at">>

InsertParams_swapped(row) ==
    <<row.id, row.aluno, row.orientador, row.areas, row.titulo,
      row.avaliador2, row.avaliador1, row.painel, row.created_at>>

InsertParams(row) ==
    <<row.id, row.aluno, row.orientador, row.areas, row.titulo,
      row.avaliador1, row.avaliador2, row.painel, row.created_at>>

InsertedTuple(row) ==
    [i \in 1..Len(TableCols) |->
        InsertParams(row)[CHOOSE k \in 1..Len(InsertCols) : InsertCols[k] = TableCols[i]]]

insert_trabalho_nokey(tbl, row) ==
    [store |-> Append(tbl, InsertedTuple(row)), err |-> "none"]

\* insert_trabalho: result of the call as [store, err].  The PRIMARY KEY
\* constraint raises sqlite3.IntegrityError and `with conn` rolls back.
insert_trabalho(tbl, row) ==
    IF row.id \in Ids(tbl)
    THEN [store |-> tbl, err |-> "IntegrityError"]
    ELSE [store |-> Append(tbl, InsertedTuple(row)), err |-> "none"]

\* The SET list and the parameter tuple of the UPDATE statement; the last
\* parameter binds WHERE id=?.
UpdateSetCols ==
    <<"aluno", "orientador", "areas", "titulo", "avaliador1", "avaliador2", "painel">>

UpdateParams(row) ==
    <<row.aluno, row.orientador, row.areas, row.titulo,
      row.avaliador1, row.avaliador2, row.painel, row.id>>

UpdatedTuple_stamps(t, row) ==
    [i \in 1..Len(TableCols) |->
        IF TableCols[i] = "created_at" THEN row.created_at
        ELSE IF \E k \in 1..Len(UpdateSetCols) : UpdateSetCols[k] = TableCols[i]
        THEN UpdateParams(row)[CHOOSE k \in 1..Len(UpdateSetCols) : UpdateSetCols[k] = TableCols[i]]
        ELSE t[i]]

UpdatedTuple(t, row) ==
    [i \in 1..Len(TableCols) |->
        IF \E k \in 1..Len(UpdateSetCols) : UpdateSetCols[k] = TableCols[i]
        THEN UpdateParams(row)[CHOOSE k \in 1..Len(UpdateSetCols) : UpdateSetCols[k] = TableCols[i]]
        ELSE t[i]]

update_trabalho_upsert(tbl, row) ==
    IF row.id \in Ids(tbl)
    THEN [i \in 1..Len(tbl) |->
            IF tbl[i][ColIndex("id")] = row.id THEN UpdatedTuple(tbl[i], row) ELSE tbl[i]]
    ELSE Append(tbl, InsertedTuple(row))

update_trabalho(tbl, row) ==
    [i \in 1..Len(tbl) |->
        IF tbl[i][ColIndex("id")] = UpdateParams(row)[Len(UpdateSetCols) + 1]
        THEN UpdatedTuple(tbl[i], row)
        ELSE tbl[i]]

get_trabalho_by_id(tbl, id) ==
    IF \E i \in 1..Len(tbl) : tbl[i][ColIndex("id")] = id
    THEN RowDict(tbl[CHOOSE i \in 1..Len(tbl) : tbl[i][ColIndex("id")] = id])
    ELSE None

RECURSIVE DeleteWhere(_, _)
DeleteWhere(tbl, id) ==
    IF tbl = <<>> THEN <<>>
    ELSE IF Head(tbl)[ColIndex("id")] = id
         THEN DeleteWhere(Tail(tbl), id)
         ELSE <<Head(tbl)>> \o DeleteWhere(Tail(tbl), id)

delete_trabalho_all(tbl, id) == <<>>

delete_trabalho(tbl, id) == DeleteWhere(tbl, id)

OrderByLess_painel(a, b) == a[ColIndex("painel")] < b[ColIndex("painel")]

\* ORDER BY painel, aluno: painel is compared as an integer, aluno with the
\* BINARY collation.
OrderByLess(a, b) ==
    \/ a[ColIndex("painel")] < b[ColIndex("painel")]
    \/ /\ a[ColIndex("painel")] = b[ColIndex("painel")]
       /\ BinaryLess(a[ColIndex("aluno")], b[ColIndex("aluno")])

\* Rows that compare equal keep their rowid order here; SQL leaves their
\* relative order open.
RECURSIVE SortedInsert(_, _)
SortedInsert(sorted, t) ==
    IF sorted = <<>> THEN <<t>>
    ELSE IF OrderByLess(t, Head(sorted))
         THEN <<t>> \o sorted
         ELSE <<Head(sorted)>> \o SortedInsert(Tail(sorted), t)

RECURSIVE OrderBy(_)
OrderBy(tbl) ==
    IF tbl = <<>> THEN <<>>
    ELSE SortedInsert(OrderBy(SubSeq(tbl, 1, Len(tbl) - 1)), tbl[Len(tbl)])

\* list_trabalhos: the data frame, one dict per row.
list_trabalhos(tbl) == [i \in 1..Len(tbl) |-> RowDict(OrderBy(tbl)[i])]

----------------------------------------------------------------------------
(* Header normalisation (import) *)

\* A column label of a data frame: a str (isstr, its characters) or another
\* object, such as the integer labels of a headerless sheet (its repr).
Str(chars) == [isstr |-> TRUE, val |-> chars]
NonStr(chars) == [isstr |-> FALSE, val |-> chars]

\* The dict `mapping` of normalize_header, as <<key, value>> pairs.
mapping ==
    { <<<<"a", "l", "u", "n", "o">>,
        <<"a", "l", "u", "n", "o">>>>,
      <<<<"a", "l", "u", "n", "o", "(", "a", ")">>,
        <<"a", "l", "u", "n", "o">>>>,
      <<<<"a", "l", "u", "n", "a">>,
        <<"a", "l", "u", "n", "o">>>>,
      <<<<"o", "r", "i", "e", "n", "t", "a", "d", "o", "r">>,
        <<"o", "r", "i", "e", "n", "t", "a", "d", "o", "r">>>>,
      <<<<"á", "r", "e", "a", "s">>,
        <<"a", "r", "e", "a", "s">>>>,
      <<<<"a", "r", "e", "a", "s">>,
        <<"a", "r", "e", "a", "s">>>>,
      <<<<"t", "í", "t", "u", "l", "o">>,
        <<"t", "i", "t", "u", "l", "o">>>>,
      <<<<"t", "i", "t", "u", "l", "o">>,
        <<"t", "i", "t", "u", "l", "o">>>>,
      <<<<"a", "v", "a", "l", "i", "a", "d", "o", "r", " ", "1">>,
        <<"a", "v", "a", "l", "i", "a", "d", "o", "r", "1">>>>,
      <<<<"a", "v", "a", "l", "i", "a", "d", "o", "r", "1">>,
        <<"a", "v", "a", "l", "i", "a", "d", "o", "r", "1">>>>,
      <<<<"a", "v", "a", "l", "i", "a", "d", "o", "r", " ", "2">>,
        <<"a", "v", "a", "l", "i", "a", "d", "o", "r", "2">>>>,
      <<<<"a", "v", "a", "l", "i", "a", "d", "o", "r", "2">>,
        <<"a", "v", "a", "l", "i", "a", "d", "o", "r", "2">>>>,
      <<<<"n", "º", " ", "d", "o", " ", "p", "a", "i", "n", "e", "l">>,
        <<"p", "a", "i", "n", "e", "l">>>>,
      <<<<"n", "o", " ", "d", "o", " ", "p", "a", "i", "n", "e", "l">>,
        <<"p", "a", "i", "n", "e", "l">>>>,
      <<<<"n", " ", "d", "o", " ", "p", "a", "i", "n", "e", "l">>,
        <<"p", "a", "i", "n", "e", "l">>>>,
      <<<<"p", "a", "i", "n", "e", "l">>,
        <<"p", "a", "i", "n", "e", "l">>>> }

strip_only(s) == [isstr |-> TRUE, val |-> strip(s.val)]

\* s.strip().lower()
strip_lower(s) == [isstr |-> TRUE, val |-> lower(strip(s.val))]

\* mapping.get(s, s)
mapping_get(s) ==
    IF \E p \in mapping : p[1] = s.val
    THEN Str((CHOOSE p \in mapping : p[1] = s.val)[2])
    ELSE s

normalize_header(s) ==
    IF ~s.isstr THEN s ELSE mapping_get(strip_lower(s))

\* df.columns = [normalize_header(c) for c in df.columns]
RenameColumns(cols) == [i \in 1..Len(cols) |-> normalize_header(cols[i])]

required ==
    << [name |-> "aluno", chars |-> <<"a", "l", "u", "n", "o">>],
       [name |-> "orientador", chars |-> <<"o", "r", "i", "e", "n", "t", "a", "d", "o", "r">>],
       [name |-> "areas", chars |-> <<"a", "r", "e", "a", "s">>],
       [name |-> "titulo", chars |-> <<"t", "i", "t", "u", "l", "o">>],
       [name |-> "avaliador1", chars |-> <<"a", "v", "a", "l", "i", "a", "d", "o", "r", "1">>],
       [name |-> "avaliador2", chars |-> <<"a", "v", "a", "l", "i", "a", "d", "o", "r", "2">>],
       [name |-> "painel", chars |-> <<"p", "a", "i", "n", "e", "l">>] >>

\* Cells of a data frame: a missing value (NaN), a number, or a str.
NaN == [k |-> "nan", v |-> <<>>]
NumCell(n) == [k |-> "num", v |-> n]
StrCell(chars) == [k |-> "str", v |-> chars]

\* ensure_columns: the rows of df[required], one record per row.  A required
\* column that no renamed header equals is filled with "".  A data frame is
\* [columns, rows], rows[i][k] being the cell of row i in column k.
ensure_columns(df) ==
    LET cols == RenameColumns(df.columns)
        Has(c) == \E k \in 1..Len(cols) : cols[k] = Str(c)
        At(c) == CHOOSE k \in 1..Len(cols) : cols[k] = Str(c)
    IN  [i \in 1..Len(df.rows) |->
            [n \in {required[j].name : j \in 1..Len(required)} |->
                LET c == (CHOOSE j \in 1..Len(required) : required[j].name = n)
                IN  IF Has(required[c].chars)
                    THEN df.rows[i][At(required[c].chars)]
                    ELSE StrCell(<<>>)]]

----------------------------------------------------------------------------
(* Import pipeline *)

Digit == ("0" :> 0) @@ ("1" :> 1) @@ ("2" :> 2) @@ ("3" :> 3)
DigitChar == <<"0", "1", "2", "3", "4", "5", "6", "7", "8", "9">>

RECURSIVE Decimal(_)
Decimal(chars) ==
    IF chars = <<>> THEN 0
    ELSE 10 * Decimal(SubSeq(chars, 1, Len(chars) - 1)) + Digit[chars[Len(chars)]]

RECURSIVE Digits(_)
Digits(n) == IF n < 10 THEN <<DigitChar[n + 1]>> ELSE Digits(n \div 10) \o <<DigitChar[(n % 10) + 1]>>

\* str(cell)
pystr(cell) ==
    CASE cell.k = "str" -> cell.v
      [] cell.k = "num" -> Digits(cell.v)
      [] cell.k = "nan" -> <<"n", "a", "n">>

\* pd.notna(cell)
notna(cell) == cell.k # "nan"

\* pd.to_numeric(cell, errors="coerce"): a number stays, a str of decimal
\* digits is parsed, any other str (the empty one too) becomes NaN.
to_numeric(cell) ==
    CASE cell.k = "num" -> cell
      [] cell.k = "nan" -> NaN
      [] cell.k = "str" ->
            IF cell.v # <<>> /\ \A i \in 1..Len(cell.v) : cell.v[i] \in DOMAIN Digit
            THEN NumCell(Decimal(cell.v))
            ELSE NaN

\* int(x): int(float("nan")) raises ValueError.
pyint(cell) ==
    IF cell.k = "num" THEN [ok |-> TRUE, v |-> cell.v] ELSE [ok |-> FALSE, v |-> 0]

\* int(pd.to_numeric(r["painel"], errors="coerce") if pd.notna(r["painel"]) else 0)
painel_of(cell) ==
    IF notna(cell) THEN pyint(to_numeric(cell)) ELSE pyint(NumCell(0))

\* The dict built for row r with identifier id at clock reading now.
import_rec(r, id, p, now) ==
    [id |-> id, aluno |-> strip(pystr(r.aluno)), orientador |-> strip(pystr(r.orientador)),
     areas |-> strip(pystr(r.areas)), titulo |-> strip(pystr(r.titulo)),
     avaliador1 |-> strip(pystr(r.avaliador1)), avaliador2 |-> strip(pystr(r.avaliador2)),
     painel |-> p, created_at |-> now]

\* The loop of "Importar tudo" over rows, ids[i] being the uuid4() of row i.
\* uuid4() is called before the panel number is converted, so the row that
\* raises has used its identifier.  Each insert commits on its own.
RECURSIVE import_loop(_, _, _, _, _)
import_loop(tbl, rows, ids, now, count) ==
    IF rows = <<>>
    THEN [store |-> tbl, count |-> count, drawn |-> count, err |-> "none"]
    ELSE LET p == painel_of(Head(rows).painel)
         IN  IF ~p.ok
             THEN [store |-> tbl, count |-> count, drawn |-> count + 1, err |-> "ValueError"]
             ELSE LET r == insert_trabalho(tbl, import_rec(Head(rows), Head(ids), p.v, now))
                  IN  IF r.err # "none"
                      THEN [store |-> tbl, count |-> count, drawn |-> count + 1, err |-> r.err]
                      ELSE import_loop(r.store, Tail(rows), Tail(ids), now, count + 1)

----------------------------------------------------------------------------
(* Calls of the record store with arbitrary arguments *)

\* Sample inputs: the six text columns, the panel number and the clock
\* reading of a record.  Ana/2 and Bea/1 order by painel against the order
\* of the names; Bea/1 and ana/1 tie on painel and order by aluno.
Samples ==
    { [aluno |-> Ana, orientador |-> <<"O", "1">>, areas |-> <<"R", "1">>,
       titulo |-> <<"T", "1">>, avaliador1 |-> <<"V", "1">>, avaliador2 |-> <<"E", "1">>,
       painel |-> 2, created_at |-> 1],
      [aluno |-> Bea, orientador |-> <<"O", "2">>, areas |-> <<"R", "2">>,
       titulo |-> <<"T", "2">>, avaliador1 |-> <<"V", "2">>, avaliador2 |-> <<"E", "2">>,
       painel |-> 1, created_at |-> 2],
      [aluno |-> ana, orientador |-> <<>>, areas |-> <<"R", "3">>,
       titulo |-> <<"T", "3">>, avaliador1 |-> <<"V", "3">>, avaliador2 |-> <<>>,
       painel |-> 1, created_at |-> 1] }

MakeRec(id, smp) ==
    [id |-> id, aluno |-> smp.aluno, orientador |-> smp.orientador,
     areas |-> smp.areas, titulo |-> smp.titulo,
     avaliador1 |-> smp.avaliador1, avaliador2 |-> smp.avaliador2,
     painel |-> smp.painel, created_at |-> smp.created_at]

Records == {MakeRec(id, smp) : id \in IDS, smp \in Samples}

NoOp == [op |-> "none", sess |-> "", id |-> "", row |-> None, before |-> <<>>,
         ret |-> None, err |-> "none", prev |-> None]

Op(op, sess, id, row, before, ret, err) ==
    [op |-> op, sess |-> sess, id |-> id, row |-> row, before |-> before,
     ret |-> ret, err |-> err, prev |-> None]

UIUnchanged ==
    UNCHANGED <<ADMIN_PASS, issued, typed_pass, tabs, rec, columns, passes, deleted>>

CallInsert(row) ==
    /\ Len(store) < MaxRows \/ row.id \in Ids(store)
    /\ store' = insert_trabalho(store, row).store
    /\ last' = Op("insert", "", row.id, row, store, None, insert_trabalho(store, row).err)
    /\ UIUnchanged

CallUpdate(row) ==
    /\ store' = update_trabalho(store, row)
    /\ last' = Op("update", "", row.id, row, store, None, "none")
    /\ UIUnchanged

\* get records the call it follows when that was an insert or a delete of
\* the same id ("insert followed by get", "delete followed by get").
CallGet(id) ==
    /\ store' = store
    /\ last' = [Op("get", "", id, None, store, get_trabalho_by_id(store, id), "none")
                   EXCEPT !.prev = IF last.op \in {"insert", "delete"} /\ last.id = id
                                   THEN [op |-> last.op, id |-> last.id,
                                         row |-> last.row, err |-> last.err,
                                         found |-> last.id \in Ids(last.before)]
                                   ELSE None]
    /\ UIUnchanged

CallList ==
    /\ store' = store
    /\ last' = Op("list", "", "", None, store, list_trabalhos(store), "none")
    /\ UIUnchanged

CallDelete(id) ==
    /\ store' = delete_trabalho(store, id)
    /\ last' = Op("delete", "", id, None, store, None, "none")
    /\ UIUnchanged

Init ==
    /\ ADMIN_PASS \in Secrets
    /\ store = <<>>
    /\ issued = {}
    /\ typed_pass = [s \in Sessions |-> ""]
    /\ tabs = [s \in Sessions |-> {}]
    /\ rec = [s \in Sessions |-> None]
    /\ columns = <<>>
    /\ passes = 0
    /\ deleted = {}
    /\ last = NoOp

NextStore ==
    \/ \E row \in Records : CallInsert(row)
    \/ \E row \in Records : CallUpdate(row)
    \/ \E id \in IDS : CallGet(id)
    \/ CallList
    \/ \E id \in IDS : CallDelete(id)

SpecStore == Init /\ [][NextStore]_vars

----------------------------------------------------------------------------
(* The Streamlit script: one action per interaction of a session.  A script
   run is split where it calls the database, so that the runs of two
   sessions interleave between those calls. *)

AdminTabs ==
    {"Cadastrar", "Importar planilha", "Lista & QR", "Exportar", "Etiquetas p/ impressão"}
PublicTabs == {"Lista & QR"}

is_admin_nonempty(secret, typed) == secret # ""

\* is_admin = (ADMIN_PASS != "" and typed_pass == ADMIN_PASS)
is_admin(secret, typed) == secret # "" /\ typed = secret

\* st.tabs(...): the tabs the run renders.
RenderTabs(admin) == IF admin THEN AdminTabs ELSE PublicTabs

Admin(s) == is_admin(ADMIN_PASS, typed_pass[s])

\* Readings of the clock during an import by the importer, and during an
\* import among the other interactions.
Times == {1, 2}
UiTimes == {1}

\* Inputs of the forms "Cadastro manual" and "Editar / Excluir".
FormInputs == {smp \in Samples : smp.aluno \in {Ana, Bea}}

\* Spreadsheets: the student column holds " Ana", "Bea " and an empty cell,
\* the panel column an empty cell, a number, digits read as text, or text.
RowName(i) ==
    CASE i % 3 = 1 -> StrCell(<<" ", "A", "n", "a">>)
      [] i % 3 = 2 -> StrCell(<<"B", "e", "a", " ">>)
      [] i % 3 = 0 -> NaN

PainelCells == {NaN, NumCell(1), StrCell(<<"2">>), StrCell(<<"a", "b", "c">>)}

HeadersFull == <<Str(<<"A", "l", "u", "n", "o", "(", "a", ")">>), Str(<<"N", "º", " ", "d", "o", " ", "P", "a", "i", "n", "e", "l">>)>>
HeadersNoPainel == <<Str(<<"A", "L", "U", "N", "O">>)>>

FilesUpTo(n) ==
    UNION { { [columns |-> HeadersFull,
               rows |-> [i \in 1..k |-> <<RowName(i), ps[i]>>]] : ps \in [1..k -> PainelCells] }
            \cup { [columns |-> HeadersNoPainel, rows |-> [i \in 1..k |-> <<RowName(i)>>]] }
          : k \in 1..n }

\* One-row spreadsheets the sessions import: a numeric and a textual panel.
SmallFiles ==
    {f \in FilesUpTo(1) :
        f.columns = HeadersFull /\ f.rows[1][2] \in {NumCell(1), StrCell(<<"a", "b", "c">>)}}
Files == FilesUpTo(MaxBatch)
Importer == "s1"

\* Sequences of k distinct identifiers not handed out before: uuid4().
FreshIds(k) ==
    {q \in [1..k -> IDS \ issued] : \A i, j \in 1..k : i # j => q[i] # q[j]}

\* A run of the script with password p typed in the sidebar.
PageLoad(s, p) ==
    /\ typed_pass' = [typed_pass EXCEPT ![s] = p]
    /\ tabs' = [tabs EXCEPT ![s] = RenderTabs(is_admin(ADMIN_PASS, p))]
    /\ rec' = [rec EXCEPT ![s] = None]
    /\ last' = Op("load", s, "", None, <<>>, None, "none")
    /\ UNCHANGED <<ADMIN_PASS, store, issued, columns, passes, deleted>>

\* ?id=...: the public detail page.
DetailPage(s, id) ==
    /\ tabs[s] # {}
    /\ last' = Op("detail", s, id, None, <<>>, None, "none")
    /\ UNCHANGED <<ADMIN_PASS, store, issued, typed_pass, tabs, rec, columns, passes, deleted>>

\* Tab "Lista & QR": the table shown to everyone.
ListaQR(s) ==
    /\ "Lista & QR" \in tabs[s]
    /\ last' = Op("lista", s, "", None, <<>>, None, "none")
    /\ UNCHANGED <<ADMIN_PASS, store, issued, typed_pass, tabs, rec, columns, passes, deleted>>

\* Form "Cadastro manual", button "Salvar".
Cadastrar(s, inp, id) ==
    /\ "Cadastrar" \in tabs[s]
    /\ Admin(s)
    /\ Cardinality(issued) < MaxIssued
    /\ id \in IDS \ issued
    /\ LET row == [id |-> id, aluno |-> strip(inp.aluno), orientador |-> strip(inp.orientador),
                   areas |-> strip(inp.areas), titulo |-> strip(inp.titulo),
                   avaliador1 |-> strip(inp.avaliador1), avaliador2 |-> strip(inp.avaliador2),
                   painel |-> inp.painel, created_at |-> inp.created_at]
           r == insert_trabalho(store, row)
       IN  /\ store' = r.store
           /\ last' = Op("cadastrar", s, id, None, <<>>, None, r.err)
    /\ issued' = issued \cup {id}
    /\ UNCHANGED <<ADMIN_PASS, typed_pass, tabs, rec, columns, passes, deleted>>

\* Tab "Importar planilha", button "Importar tudo"; idcap bounds the
\* identifiers handed out.
ImportarTudo(s, file, ids, now, idcap) ==
    /\ "Importar planilha" \in tabs[s]
    /\ Admin(s)
    /\ Cardinality(issued) + Len(file.rows) <= idcap
    /\ LET r == import_loop(store, ensure_columns(file), ids, now, 0)
       IN  /\ store' = r.store
           /\ issued' = issued \cup {ids[i] : i \in 1..r.drawn}
           /\ last' = Op("import", s, "", file, store,
                         IF r.err = "none" THEN [count |-> r.count] ELSE None, r.err)
    /\ UNCHANGED <<ADMIN_PASS, typed_pass, tabs, rec, columns, passes, deleted>>

\* A run in which an id of the list is selected: the form "Editar / Excluir"
\* loads the record into the local rec (line 272).  The run goes on with the
\* button that was clicked, Salvar or Excluir, and rec ends with the run.
OpenEdit(s, id) ==
    /\ "Lista & QR" \in tabs[s]
    /\ Admin(s)
    /\ \E i \in 1..Len(store) : list_trabalhos(store)[i].id = id
    /\ rec' = [rec EXCEPT ![s] = get_trabalho_by_id(store, id)]
    /\ last' = Op("edit", s, id, None, <<>>, None, "none")
    /\ UNCHANGED <<ADMIN_PASS, store, issued, typed_pass, tabs, columns, passes, deleted>>

\* Button "Salvar alterações" (lines 282-291) of the run holding rec[s].
Salvar(s, inp) ==
    /\ Admin(s)
    /\ rec[s] # None
    /\ LET row == [rec[s] EXCEPT !.aluno = inp.aluno, !.orientador = inp.orientador,
                                 !.areas = inp.areas, !.titulo = inp.titulo,
                                 !.avaliador1 = inp.avaliador1, !.avaliador2 = inp.avaliador2,
                                 !.painel = inp.painel]
       IN  /\ store' = update_trabalho(store, row)
           /\ last' = Op("salvar", s, row.id, None, <<>>, None, "none")
    /\ rec' = [rec EXCEPT ![s] = None]
    /\ UNCHANGED <<ADMIN_PASS, issued, typed_pass, tabs, columns, passes, deleted>>

\* Button "Excluir registro" (lines 292-294) of the run holding rec[s].
Excluir(s) ==
    /\ Admin(s)
    /\ rec[s] # None
    /\ store' = delete_trabalho(store, rec[s].id)
    /\ deleted' = deleted \cup {<<rec[s].id, s>>}
    /\ last' = Op("excluir", s, rec[s].id, None, <<>>, None, "none")
    /\ rec' = [rec EXCEPT ![s] = None]
    /\ UNCHANGED <<ADMIN_PASS, issued, typed_pass, tabs, columns, passes>>

\* Tab "Exportar": the CSV of the whole table.
Exportar(s) ==
    /\ "Exportar" \in tabs[s]
    /\ Admin(s)
    /\ last' = Op("exportar", s, "", None, <<>>, None, "none")
    /\ UNCHANGED <<ADMIN_PASS, store, issued, typed_pass, tabs, rec, columns, passes, deleted>>

Next ==
    \/ \E s \in Sessions, p \in Passwords : PageLoad(s, p)
    \/ \E s \in Sessions, id \in IDS : DetailPage(s, id)
    \/ \E s \in Sessions : ListaQR(s)
    \/ \E s \in Sessions, inp \in FormInputs, id \in IDS : Cadastrar(s, inp, id)
    \/ \E s \in Sessions, file \in SmallFiles, now \in UiTimes :
          \E ids \in FreshIds(Len(file.rows)) : ImportarTudo(s, file, ids, now, MaxIssued)
    \/ \E s \in Sessions, id \in IDS : OpenEdit(s, id)
    \/ \E s \in Sessions, inp \in FormInputs : Salvar(s, inp)
    \/ \E s \in Sessions : Excluir(s)
    \/ \E s \in Sessions : Exportar(s)

Spec == Init /\ [][Next]_vars

\* The import alone, by one session, with spreadsheets of up to MaxBatch rows.
NextImport ==
    \/ \E p \in Passwords : PageLoad(Importer, p)
    \/ \E file \in Files, now \in Times :
          \E ids \in FreshIds(Len(file.rows)) :
              ImportarTudo(Importer, file, ids, now, Cardinality(IDS))

SpecImport == Init /\ [][NextImport]_vars

----------------------------------------------------------------------------
(* The header normalisation alone: line 99 of ensure_columns applied again
   and again to a header list, and ensure_columns on a one-row sheet. *)

UpperChar ==
    ("a" :> "A") @@ ("b" :> "B") @@ ("d" :> "D") @@ ("e" :> "E") @@
    ("i" :> "I") @@ ("l" :> "L") @@ ("n" :> "N") @@ ("o" :> "O") @@
    ("p" :> "P") @@ ("r" :> "R") @@ ("s" :> "S") @@ ("t" :> "T") @@
    ("u" :> "U") @@ ("v" :> "V") @@ ("á" :> "Á") @@ ("í" :> "Í")

UnaccentChar == ("á" :> "a") @@ ("í" :> "i") @@ ("º" :> "o")

Up(c) == IF c \in DOMAIN UpperChar THEN UpperChar[c] ELSE c
Unaccent(c) == IF c \in DOMAIN UnaccentChar THEN UnaccentChar[c] ELSE c

upper(s) == [i \in 1..Len(s) |-> Up(s[i])]
capitalize(s) == [i \in 1..Len(s) |-> IF i = 1 THEN Up(s[i]) ELSE s[i]]
unaccent(s) == [i \in 1..Len(s) |-> Unaccent(s[i])]

Keys == {p[1] : p \in mapping}

\* Headers a sheet may carry: every key of the mapping in lower, upper and
\* capitalised writing, with and without its accents; the two headers the
\* documentation names; padded, unknown and non-str labels.
Headers ==
    {Str(k) : k \in Keys} \cup {Str(upper(k)) : k \in Keys}
    \cup {Str(capitalize(k)) : k \in Keys}
    \cup {Str(unaccent(k)) : k \in Keys} \cup {Str(upper(unaccent(k))) : k \in Keys}
    \cup { Str(<<"T", "í", "t", "u", "l", "o">>), Str(<<"N", "º", " ", "d", "o", " ", "P", "a", "i", "n", "e", "l">>), Str(<<" ", "A", "l", "u", "n", "o", "(", "a", ")", " ">>), Str(<<"E", "m", "a", "i", "l">>), Str(<<" ", "O", "b", "s">>),
           Str(<<"Á", "r", "e", "a">>), NonStr(<<"0">>) }

HeaderLists == UNION {[1..n -> Headers] : n \in 1..MaxCols}

InitHeaders ==
    /\ ADMIN_PASS \in Secrets
    /\ store = <<>>
    /\ issued = {}
    /\ typed_pass = [s \in Sessions |-> ""]
    /\ tabs = [s \in Sessions |-> {}]
    /\ rec = [s \in Sessions |-> None]
    /\ columns \in HeaderLists
    /\ passes = 0
    /\ deleted = {}
    /\ last = [NoOp EXCEPT !.row = columns]

\* df.columns = [normalize_header(c) for c in df.columns]; last.row keeps the
\* headers of the sheet, last.before those before this pass.
Rename ==
    /\ passes < MaxPasses
    /\ columns' = RenameColumns(columns)
    /\ passes' = passes + 1
    /\ last' = Op("rename", "", "", last.row, columns, None, "none")
    /\ UNCHANGED <<ADMIN_PASS, store, issued, typed_pass, tabs, rec, deleted>>

\* ensure_columns on a sheet with the current headers and one row whose cell
\* in column k is the digit k.  Two headers renamed to one name are left
\* out: pandas then yields both columns.
Project ==
    /\ \A i, j \in 1..Len(columns) :
          i # j => normalize_header(columns[i]) # normalize_header(columns[j])
    /\ last' = Op("ensure", "", "", last.row, columns,
                  ensure_columns([columns |-> columns,
                                  rows |-> <<[k \in 1..Len(columns) |-> NumCell(k)]>>])[1],
                  "none")
    /\ UNCHANGED <<ADMIN_PASS, store, issued, typed_pass, tabs, rec, columns, passes, deleted>>

NextHeaders == Rename \/ Project

SpecHeaders == InitHeaders /\ [][NextHeaders]_vars

----------------------------------------------------------------------------
(* Properties of the record store, under SpecStore *)

AfterGetFollowing(op) ==
    /\ last.op = "get"
    /\ last.prev # None
    /\ last.prev.op = op

\* C4: a get that follows a successful insert of a record (its id was not in
\* the table) returns a record equal to the inserted one in all nine fields.
C4_InsertThenGet ==
    (AfterGetFollowing("insert") /\ last.prev.err = "none")
        => last.ret = last.prev.row

C4_Witness ==
    /\ AfterGetFollowing("insert")
    /\ last.prev.err = "none"
    /\ last.ret # None
    /\ Len(store) >= 2

\* C5: update of an existing id writes the seven mutable fields of that row
\* from the input, keeps its id and created_at, and keeps every other row.
C5_UpdateFrame ==
    (last.op = "update" /\ last.id \in Ids(last.before)) =>
        /\ Len(store) = Len(last.before)
        /\ \A i \in 1..Len(last.before) :
              LET b == RowDict(last.before[i])
                  a == RowDict(store[i])
              IN  IF b.id = last.id
                  THEN /\ a.id = b.id
                       /\ a.created_at = b.created_at
                       /\ a.aluno = last.row.aluno
                       /\ a.orientador = last.row.orientador
                       /\ a.areas = last.row.areas
                       /\ a.titulo = last.row.titulo
                       /\ a.avaliador1 = last.row.avaliador1
                       /\ a.avaliador2 = last.row.avaliador2
                       /\ a.painel = last.row.painel
                  ELSE a = b

C5_Witness ==
    /\ last.op = "update"
    /\ Len(store) >= 2
    /\ \E i \in 1..Len(last.before) :
          /\ RowDict(last.before[i]).id = last.id
          /\ RowDict(last.before[i]).created_at # last.row.created_at
          /\ RowDict(last.before[i]).aluno # last.row.aluno
          /\ RowDict(last.before[i]).painel # last.row.painel

\* C6: insert with an id already in the table raises the storage error and
\* leaves the table as it was, with a single row of that id.
C6_DuplicateInsert ==
    (last.op = "insert" /\ last.id \in Ids(last.before)) =>
        /\ last.err = "IntegrityError"
        /\ store = last.before
        /\ Cardinality({i \in 1..Len(store) : RowDict(store[i]).id = last.id}) = 1

C6_Witness ==
    /\ last.op = "insert"
    /\ last.err = "IntegrityError"
    /\ get_trabalho_by_id(store, last.id) # last.row

\* C7: a get that follows a delete of the same id returns None; a delete
\* keeps every row of another id, and is a no-op when the id is absent.
C7_DeleteThenGet ==
    /\ AfterGetFollowing("delete") => last.ret = None
    /\ last.op = "delete" =>
          /\ store = SelectSeq(last.before, LAMBDA t : t[1] # last.id)
          /\ last.id \notin Ids(last.before) => store = last.before

C7_Witness ==
    /\ AfterGetFollowing("delete")
    /\ last.prev.found
    /\ last.ret = None
    /\ Len(store) >= 1

KeyOrdered(a, b) ==
    \/ a.painel < b.painel
    \/ a.painel = b.painel /\ ~BinaryLess(b.aluno, a.aluno)

\* C8: list() returns exactly the rows of the table, ordered by painel
\* ascending and, within a painel, by aluno ascending (code point order).
C8_ListSorted ==
    last.op = "list" =>
        /\ Len(last.ret) = Len(store)
        /\ \A i \in 1..Len(store) :
              Cardinality({j \in 1..Len(last.ret) : last.ret[j] = RowDict(store[i])}) = 1
        /\ \A i, j \in 1..Len(last.ret) : i < j => KeyOrdered(last.ret[i], last.ret[j])

\* Ana/2 was inserted before Bea/1 and is listed after it.
C8_Witness ==
    /\ last.op = "list"
    /\ Len(store) >= 2
    /\ RowDict(store[1]).aluno = Ana
    /\ last.ret[1].aluno = Bea
    /\ \E j \in 2..Len(last.ret) : last.ret[j].aluno = Ana

----------------------------------------------------------------------------
(* Properties of the access gate and of the sessions, under Spec *)

\* C1: with no admin secret configured (ADMIN_PASS = ""), every page load,
\* whatever password is typed, is in the admin state: the run renders the
\* tabs of the create, import, edit, delete and export actions.
C1_OpenWithoutSecret ==
    ADMIN_PASS = "" => \A s \in Sessions : tabs[s] # {} => tabs[s] = AdminTabs

WrongPassword(s) == ADMIN_PASS # "" /\ typed_pass[s] # ADMIN_PASS

\* C2: with a secret configured and another password typed, the page load is
\* in the public state, and no step of such a session changes the table: its
\* steps are page loads, detail pages and listings only.
C2_PublicReadOnly ==
    /\ [](\A s \in Sessions : (WrongPassword(s) /\ tabs[s] # {}) => tabs[s] = PublicTabs)
    /\ [][(/\ last'.sess \in Sessions
            /\ ADMIN_PASS # ""
            /\ typed_pass'[last'.sess] # ADMIN_PASS)
             => (store' = store /\ last'.op \in {"load", "detail", "lista"})]_vars

\* A session that typed "" against the secret "x" lists a table that holds a record.
C2_Witness ==
    /\ ADMIN_PASS = "x"
    /\ last.op = "lista"
    /\ typed_pass[last.sess] = ""
    /\ tabs[last.sess] = PublicTabs
    /\ store # <<>>

\* C9: an update of an id that is not in the table creates no row and changes
\* none, and a record deleted through the form never comes back, also when
\* another session saves a form that had loaded it.
C9_UpdateNeverInserts ==
    /\ [](\A d \in deleted : d[1] \notin Ids(store))
    /\ [][(last'.op = "salvar" /\ last'.id \notin Ids(store)) => store' = store]_vars

\* A session saved the form of a record that the other session had deleted.
C9_Witness ==
    /\ last.op = "salvar"
    /\ last.id \notin Ids(store)
    /\ \E d \in deleted : d[1] = last.id /\ d[2] # last.sess

----------------------------------------------------------------------------
(* Properties of the import, under SpecImport *)

TextPanel(cell) == cell.k = "str" /\ \E i \in 1..Len(cell.v) : cell.v[i] \in {"a", "b", "c"}

HasTextPanel(file) ==
    /\ file.columns = HeadersFull
    /\ \E i \in 1..Len(file.rows) : TextPanel(file.rows[i][2])

\* C3: an import of a sheet in which some row has a non-numeric panel value
\* is not aborted: every row of the sheet is inserted as a record of its own,
\* the rows with the non-numeric panel with painel = 0, and the count
\* reported is the number of rows of the sheet.
C3_TextPanelImportsAsZero ==
    (last.op = "import" /\ HasTextPanel(last.row)) =>
        /\ last.err = "none"
        /\ last.ret = [count |-> Len(last.row.rows)]
        /\ Len(store) = Len(last.before) + Len(last.row.rows)
        /\ \A i \in 1..Len(last.row.rows) :
              TextPanel(last.row.rows[i][2])
                  => RowDict(store[Len(last.before) + i]).painel = 0

----------------------------------------------------------------------------
(* Properties of the header normalisation, under SpecHeaders *)

\* h is k written in another letter case, with or without its accents.
IsVariant(h, k) ==
    /\ Len(h) = Len(k)
    /\ \A i \in 1..Len(k) : h[i] \in {k[i], Up(k[i]), Unaccent(k[i]), Up(Unaccent(k[i]))}

IsCanonical(h) == \E j \in 1..Len(required) : h = Str(required[j].chars)

\* C10: a second normalisation pass changes no header; the seven canonical
\* names are returned unchanged; a header that is a key of the mapping in
\* any letter case, with or without its accents, becomes the canonical name
\* of that key.
C10_NormalizeIdempotent ==
    last.op = "rename" =>
        /\ passes >= 2 => columns = last.before
        /\ passes = 1 =>
              \A i \in 1..Len(columns) :
                 /\ IsCanonical(last.row[i]) => columns[i] = last.row[i]
                 /\ \A p \in mapping :
                       (last.row[i].isstr /\ IsVariant(last.row[i].val, p[1]))
                           => columns[i] = Str(p[2])

\* "Nº do Painel" went through two passes and is "painel".
C10_Witness ==
    /\ last.op = "rename"
    /\ passes >= 2
    /\ last.row[1] = Str(<<"N", "º", " ", "d", "o", " ", "P", "a", "i", "n", "e", "l">>)
    /\ columns[1] = Str(<<"p", "a", "i", "n", "e", "l">>)

====
